---- MODULE Spec2Model ----
(***************************************************************************)
(* A model of the NEO close-approach database: models.py (entities),       *)
(* database.py (linkage, lookups, query), filters.py (predicates,          *)
(* create_filters, limit) and write.py (result rows).                      *)
(*                                                                         *)
(* Representation.                                                         *)
(*  - A Python string is a tuple of one-character strings.                 *)
(*  - An optional value is None (<<>>) or Some(x) (<<x>>).                 *)
(*  - A float is an integer number of units; float("nan") is NaN, which    *)
(*    every comparison operator answers False on.                          *)
(*  - An object reference is the object's position in the list that owns   *)
(*    it: a NEO is its index in neos, an approach its index in approaches. *)
(***************************************************************************)
EXTENDS Integers, Sequences, FiniteSets, TLC

VARIABLES
    neos,        \* NEODatabase._neos: sequence of NearEarthObject records
    approaches,  \* NEODatabase._approaches: sequence of CloseApproach records
    phase,       \* "loaded" before NEODatabase.__init__ has run, "built" after
    streams,     \* the generators returned by query(), by stream id
    lookup,      \* the last get_neo_by_designation / get_neo_by_name call
    created,     \* the last create_filters call
    lim,         \* the last limit() call and its consumer
    written      \* the last serialize / write_to_csv / write_to_json call

vars == <<neos, approaches, phase, streams, lookup, created, lim, written>>

----------------------------------------------------------------------------
(* Bounds *)

MaxNeos == 2
MaxApproaches == 3
MaxFilters == 2
MaxStrLen == 2
MaxLen == 3
MaxStreams == 2

----------------------------------------------------------------------------
(* Values *)

None == <<>>
Some(x) == <<x>>

\* float("nan"): outside the non-negative range of every measured quantity
NaN == -1

Idle == [op |-> "none"]

\* sequences over S of length 0..n
SeqsUpTo(S, n) == UNION {[1..k -> S] : k \in 0..n}

\* number of occurrences of x in the sequence s
Count(s, x) == Cardinality({i \in 1..Len(s) : s[i] = x})

Min(a, b) == IF a <= b THEN a ELSE b

----------------------------------------------------------------------------
(* Strings: str.upper, str.lower, str.capitalize on a small alphabet *)

Chars == {"a", "A", "1"}

upper_char(c) == IF c = "a" THEN "A" ELSE c
lower_char(c) == IF c = "A" THEN "a" ELSE c

upper(s) == [i \in 1..Len(s) |-> upper_char(s[i])]

capitalize_rest_unchanged(s) ==
    [i \in 1..Len(s) |-> IF i = 1 THEN upper_char(s[i]) ELSE s[i]]
\* str.capitalize(): first character upper-cased, all others lower-cased
capitalize(s) ==
    [i \in 1..Len(s) |-> IF i = 1 THEN upper_char(s[i]) ELSE lower_char(s[i])]

----------------------------------------------------------------------------
(* models.py *)

\* helpers.cd_to_datetime: a compact timestamp <<day, minute>> parsed into a
\* datetime with a calendar date and a time of day
cd_to_datetime(t) == [date |-> t[1], hm |-> t[2]]

\* NearEarthObject.__init__; diameter is None or Some(float)
NearEarthObject(designation, name, diameter, hazardous) ==
    [designation |-> designation,
     name        |-> name,
     diameter    |-> IF diameter = None \/ diameter[1] = 0 THEN NaN ELSE diameter[1],
     hazardous   |-> hazardous,
     approaches  |-> <<>>]

\* CloseApproach.__init__ called without a neo keyword, as load_approaches does
CloseApproach(designation, time, velocity, distance) ==
    [designation |-> designation,
     time        |-> cd_to_datetime(time),
     distance    |-> IF distance # 0 THEN distance ELSE NaN,
     velocity    |-> IF velocity # 0 THEN velocity ELSE NaN,
     neo         |-> None]

----------------------------------------------------------------------------
(* database.py: NEODatabase.__init__ *)

\* dict item assignment m[k] = v
DictPut(m, k, v) == [x \in (DOMAIN m) \cup {k} |-> IF x = k THEN v ELSE m[x]]

RECURSIVE designations_with_indices_first_wins(_, _, _)
designations_with_indices_first_wins(ns, index, m) ==
    IF index > Len(ns) THEN m
    ELSE designations_with_indices_first_wins(ns, index + 1,
            IF ns[index].designation \in DOMAIN m THEN m
            ELSE DictPut(m, ns[index].designation, index))
\* the first loop: designation -> position, a later NEO overwriting an earlier
RECURSIVE designations_with_indices(_, _, _)
designations_with_indices(ns, index, m) ==
    IF index > Len(ns) THEN m
    ELSE designations_with_indices(ns, index + 1,
            DictPut(m, ns[index].designation, index))

link_approach_default_first(db, j, m) ==
    LET d == db.approaches[j].designation
        n == IF d \in DOMAIN m THEN m[d] ELSE 1
    IN  IF Len(db.neos) = 0 THEN db
        ELSE [neos |-> [db.neos EXCEPT ![n].approaches = Append(@, j)],
              approaches |-> [db.approaches EXCEPT ![j].neo = Some(n)]]
link_approach_no_append(db, j, m) ==
    LET d == db.approaches[j].designation
    IN  IF d \in DOMAIN m
        THEN [neos |-> db.neos,
              approaches |-> [db.approaches EXCEPT ![j].neo = Some(m[d])]]
        ELSE db
\* the body of the second loop for the approach at position j
link_approach(db, j, m) ==
    LET d == db.approaches[j].designation
    IN  IF d \in DOMAIN m
        THEN [neos |-> [db.neos EXCEPT ![m[d]].approaches = Append(@, j)],
              approaches |-> [db.approaches EXCEPT ![j].neo = Some(m[d])]]
        ELSE db

RECURSIVE link_loop(_, _, _)
link_loop(db, j, m) ==
    IF j > Len(db.approaches) THEN db
    ELSE link_loop(link_approach(db, j, m), j + 1, m)

\* NEODatabase.__init__(neos, approaches): the linked collections
NEODatabase(ns, as) ==
    link_loop([neos |-> ns, approaches |-> as], 1,
              designations_with_indices(ns, 1, <<>>))

----------------------------------------------------------------------------
(* filters.py: AttributeFilter and its subclasses *)

\* a filter object: the subclass (kind), the comparator and the reference value
Filter(kind, op, value) == [kind |-> kind, op |-> op, value |-> value]

\* Python's bool is an int (False == 0, True == 1): a bool that is compared or
\* kept as a filter's reference value is written as that number
Bool(b) == IF b THEN 1 ELSE 0

\* operator.eq / operator.ge / operator.le on floats; any comparison with nan
\* is False
compare(op, x, y) ==
    /\ x # NaN
    /\ y # NaN
    /\ CASE op = "eq" -> x = y
         [] op = "ge" -> x >= y
         [] op = "le" -> x <= y

\* the subclasses whose get reads approach.neo
NeoDerived == {"Diameter", "Hazardous"}

\* get raises AttributeError: approach.neo is None and get dereferences it
get_raises(kind, approach) == kind \in NeoDerived /\ approach.neo = None

\* <Kind>Filter.get(approach), where it does not raise
get(kind, approach, ns) ==
    CASE kind = "Distance"  -> approach.distance
      [] kind = "Velocity"  -> approach.velocity
      [] kind = "Date"      -> approach.time.date
      [] kind = "Diameter"  -> ns[approach.neo[1]].diameter
      [] kind = "Hazardous" -> Bool(ns[approach.neo[1]].hazardous)

\* AttributeFilter.__call__, where get does not raise
call(f, approach, ns) == compare(f.op, get(f.kind, approach, ns), f.value)

----------------------------------------------------------------------------
(* database.py: check_approach_against_filters and query *)

RECURSIVE check_loop_short_circuit(_, _, _, _, _)
check_loop_short_circuit(approach, filters, ns, k, match_filter) ==
    IF k > Len(filters) \/ ~match_filter
    THEN [raised |-> FALSE, value |-> match_filter]
    ELSE IF get_raises(filters[k].kind, approach)
    THEN [raised |-> TRUE, value |-> FALSE]
    ELSE check_loop_short_circuit(approach, filters, ns, k + 1,
            match_filter /\ call(filters[k], approach, ns))
RECURSIVE check_loop_last_wins(_, _, _, _, _)
check_loop_last_wins(approach, filters, ns, k, match_filter) ==
    IF k > Len(filters) THEN [raised |-> FALSE, value |-> match_filter]
    ELSE IF get_raises(filters[k].kind, approach)
    THEN [raised |-> TRUE, value |-> FALSE]
    ELSE check_loop_last_wins(approach, filters, ns, k + 1,
            call(filters[k], approach, ns))
\* the loop of check_approach_against_filters from the k-th filter on: every
\* filter is called, a False clears match_filter, an exception propagates
RECURSIVE check_loop(_, _, _, _, _)
check_loop(approach, filters, ns, k, match_filter) ==
    IF k > Len(filters) THEN [raised |-> FALSE, value |-> match_filter]
    ELSE IF get_raises(filters[k].kind, approach)
    THEN [raised |-> TRUE, value |-> FALSE]
    ELSE check_loop(approach, filters, ns, k + 1,
            IF call(filters[k], approach, ns) THEN match_filter ELSE FALSE)

check_approach_against_filters(approach, filters, ns) ==
    check_loop(approach, filters, ns, 1, TRUE)

\* the generator's run from position i to its next yield, its end or its raise
RECURSIVE query_resume(_, _, _, _)
query_resume(as, ns, filters, i) ==
    IF i > Len(as) THEN [kind |-> "stop", at |-> i]
    ELSE IF filters # <<>>
    THEN LET r == check_approach_against_filters(as[i], filters, ns)
         IN  IF r.raised THEN [kind |-> "raise", at |-> i]
             ELSE IF r.value THEN [kind |-> "yield", at |-> i]
             ELSE query_resume(as, ns, filters, i + 1)
    ELSE [kind |-> "yield", at |-> i]

query_shared_cursor(filters) ==
    [op |-> "query", filters |-> filters, out |-> <<>>, status |-> "suspended",
     pos |-> IF \E t \in DOMAIN streams : streams[t].op = "query"
             THEN (CHOOSE p \in {streams[t].pos : t \in {u \in DOMAIN streams : streams[u].op = "query"}} :
                     \A t \in {u \in DOMAIN streams : streams[u].op = "query"} : streams[t].pos <= p)
             ELSE 1]
\* query(filters): a new generator object; its body has not started
query(filters) ==
    [op |-> "query", filters |-> filters, pos |-> 1, out |-> <<>>,
     status |-> "suspended"]

\* next(generator)
generator_next(g, as, ns) ==
    LET r == query_resume(as, ns, g.filters, g.pos)
    IN  CASE r.kind = "yield" ->
               [g EXCEPT !.pos = r.at + 1, !.out = Append(@, r.at)]
          [] r.kind = "stop"  -> [g EXCEPT !.pos = r.at, !.status = "done"]
          [] r.kind = "raise" -> [g EXCEPT !.pos = r.at, !.status = "error"]

----------------------------------------------------------------------------
(* The database: construction, then query streams consumed step by step *)

\* NearEarthObject arguments as load_neos passes them
NeoInputs ==
    { NearEarthObject(<<"1">>, None, None, FALSE),
      NearEarthObject(<<"1">>, Some(<<"A">>), Some(2), TRUE),
      NearEarthObject(<<"A">>, None, Some(1), TRUE) }

\* CloseApproach arguments as load_approaches passes them; <<"a">> is the
\* designation of no NEO
ApproachInputs ==
    { CloseApproach(<<"1">>, <<1, 0>>, 1, 1),
      CloseApproach(<<"A">>, <<2, 0>>, 2, 2),
      CloseApproach(<<"a">>, <<1, 5>>, 2, 1),
      CloseApproach(<<"1">>, <<2, 5>>, 1, 0) }

FilterPool ==
    { Filter("Distance", "le", 1),
      Filter("Distance", "ge", 2),
      Filter("Velocity", "ge", 2),
      Filter("Date", "eq", 1),
      Filter("Diameter", "ge", 1),
      Filter("Hazardous", "eq", Bool(TRUE)) }

\* the collections handed to NEODatabase
NeoSeqs == SeqsUpTo(NeoInputs, MaxNeos)
ApproachSeqs == SeqsUpTo(ApproachInputs, MaxApproaches)

\* the NEOs of the databases that are queried: one of unknown diameter and
\* not hazardous, one of known diameter and hazardous
QueryNeos ==
    << NearEarthObject(<<"1">>, None, None, FALSE),
       NearEarthObject(<<"A">>, None, Some(1), TRUE) >>

\* the filter collections of a single query stream
FilterSeqs == SeqsUpTo(FilterPool, MaxFilters)

\* the filter collections of the interleaved query streams
StreamFilterSeqs ==
    { <<>>,
      <<Filter("Distance", "le", 1)>>,
      <<Filter("Velocity", "ge", 1), Filter("Hazardous", "eq", Bool(TRUE))>> }

NoStreams(S) == [s \in S |-> Idle]

\* the collections are loaded, the database is not constructed yet
InitDB(S, NS, AS) ==
    /\ neos \in NS
    /\ approaches \in AS
    /\ phase = "loaded"
    /\ streams = NoStreams(S)
    /\ lookup = Idle
    /\ created = Idle
    /\ lim = Idle
    /\ written = Idle

\* db = NEODatabase(neos, approaches)
Construct ==
    /\ phase = "loaded"
    /\ LET db == NEODatabase(neos, approaches)
       IN  /\ neos' = db.neos
           /\ approaches' = db.approaches
    /\ phase' = "built"
    /\ UNCHANGED <<streams, lookup, created, lim, written>>

\* g = db.query(filters)
Query(s, FS) ==
    /\ phase = "built"
    /\ streams[s] = Idle
    /\ \E filters \in FS :
          streams' = [streams EXCEPT ![s] = query(filters)]
    /\ UNCHANGED <<neos, approaches, phase, lookup, created, lim, written>>

\* next(g)
QueryNext(s) ==
    /\ phase = "built"
    /\ streams[s] # Idle
    /\ streams[s].status = "suspended"
    /\ streams' = [streams EXCEPT ![s] = generator_next(@, approaches, neos)]
    /\ UNCHANGED <<neos, approaches, phase, lookup, created, lim, written>>

\* construction of the database from any loaded collections
Init == InitDB({}, NeoSeqs, ApproachSeqs)

Next == Construct

Spec == Init /\ [][Next]_vars

\* one query stream over a constructed database
InitQuery == InitDB({1}, {QueryNeos}, ApproachSeqs)

NextQuery ==
    \/ Construct
    \/ Query(1, FilterSeqs)
    \/ QueryNext(1)

SpecQuery == InitQuery /\ [][NextQuery]_vars

\* several query streams over one database, consumed in any interleaving
InitStreams == InitDB(1..MaxStreams, {QueryNeos}, ApproachSeqs)

NextStreams ==
    \/ Construct
    \/ \E s \in 1..MaxStreams : Query(s, StreamFilterSeqs)
    \/ \E s \in 1..MaxStreams : QueryNext(s)

SpecStreams == InitStreams /\ [][NextStreams]_vars

----------------------------------------------------------------------------
(* Properties of construction and query *)

Range(s) == {s[i] : i \in 1..Len(s)}
IsAscending(s) == \A i, k \in 1..Len(s) : i < k => s[i] < s[k]
IsPrefix(s, t) == Len(s) <= Len(t) /\ \A i \in 1..Len(s) : s[i] = t[i]

Queries == {s \in DOMAIN streams : streams[s].op = "query"}

\* some predicate of F cannot be evaluated on the approach at position i
RaisesAt(F, i) == \E k \in 1..Len(F) : get_raises(F[k].kind, approaches[i])

\* every predicate of F evaluates true on the approach at position i
AllTrue(F, i) ==
    \A k \in 1..Len(F) :
        /\ ~get_raises(F[k].kind, approaches[i])
        /\ call(F[k], approaches[i], neos)

Matching(F) == {i \in 1..Len(approaches) : AllTrue(F, i)}

\* the positions before the first approach on which a predicate of F raises
BeforeRaise(F) ==
    {i \in 1..Len(approaches) : \A h \in 1..i : ~RaisesAt(F, h)}

\* C1 as stated: a finished query(F) has yielded, in stored order and each at
\* most once, exactly the approaches on which every predicate of F is true,
\* and with an empty F every approach, whatever the database and F.
C1_AsStated ==
    \A s \in Queries :
        LET g == streams[s]
        IN  /\ IsAscending(g.out)
            /\ Range(g.out) \subseteq Matching(g.filters)
            /\ g.status # "suspended" =>
                  /\ g.status = "done"
                  /\ Range(g.out) = Matching(g.filters)
                  /\ g.filters = <<>> => g.out = [i \in 1..Len(approaches) |-> i]

\* C1 amended: query(F) yields, in stored order and each at most once, the
\* approaches on which every predicate of F is true; it yields exactly those
\* and ends normally when no predicate of F raises on any approach (every
\* approach with F empty), and otherwise yields exactly those that precede the
\* first approach on which a predicate raises and ends there with an error.
C1_QueryYieldsMatches ==
    \A s \in Queries :
        LET g == streams[s]
            F == g.filters
        IN  /\ IsAscending(g.out)
            /\ Range(g.out) \subseteq Matching(F) \cap BeforeRaise(F)
            /\ g.status = "done" =>
                  /\ BeforeRaise(F) = 1..Len(approaches)
                  /\ Range(g.out) = Matching(F)
                  /\ F = <<>> => g.out = [i \in 1..Len(approaches) |-> i]
            /\ g.status = "error" =>
                  /\ BeforeRaise(F) # 1..Len(approaches)
                  /\ g.pos \notin BeforeRaise(F)
                  /\ g.pos - 1 \in BeforeRaise(F) \cup {0}
                  /\ Range(g.out) = Matching(F) \cap BeforeRaise(F)

\* a finished two-filter query that kept one approach and dropped another
C1_Witness ==
    \E s \in Queries :
        /\ streams[s].status = "done"
        /\ Len(streams[s].filters) = 2
        /\ streams[s].filters[1] # streams[s].filters[2]
        /\ Len(streams[s].out) >= 1
        /\ Len(streams[s].out) < Len(approaches)
        /\ \E i \in 1..Len(approaches) :
              /\ call(streams[s].filters[1], approaches[i], neos)
              /\ ~AllTrue(streams[s].filters, i)

HasDesignation(n, j) == neos[n].designation = approaches[j].designation
Linkable(j) == \E n \in 1..Len(neos) : HasDesignation(n, j)

\* C2: once the database is constructed, every approach whose designation is
\* that of some NEO refers to a NEO of that designation (to the NEO itself
\* when it is the only one of that designation) and occurs exactly once in
\* that NEO's approaches.
C2_MatchingApproachesLinked ==
    phase = "built" =>
        \A j \in 1..Len(approaches) : \A n \in 1..Len(neos) :
            HasDesignation(n, j) =>
                /\ approaches[j].neo # None
                /\ HasDesignation(approaches[j].neo[1], j)
                /\ Count(neos[approaches[j].neo[1]].approaches, j) = 1
                /\ (\A o \in 1..Len(neos) : HasDesignation(o, j) => o = n)
                      => approaches[j].neo = Some(n)

\* a constructed database where one NEO has received two approaches
C2_Witness ==
    /\ phase = "built"
    /\ \E n \in 1..Len(neos) :
          /\ Len(neos[n].approaches) = 2
          /\ \A j \in Range(neos[n].approaches) : approaches[j].neo = Some(n)

\* C10: construction leaves an approach whose designation is that of no NEO
\* as it was (neo unset, same record at the same position, in no NEO's
\* approaches) and changes the length of neither collection.
C10_OrphanStep ==
    (phase = "loaded" /\ phase' = "built") =>
        /\ Len(approaches') = Len(approaches)
        /\ Len(neos') = Len(neos)
        /\ \A j \in 1..Len(approaches) :
              ~Linkable(j) =>
                  /\ approaches'[j] = approaches[j]
                  /\ approaches'[j].neo = None
                  /\ \A n \in 1..Len(neos') : Count(neos'[n].approaches, j) = 0

C10_OrphanUntouched == [][C10_OrphanStep]_vars

\* a constructed database with an orphan between two linked approaches
C10_Witness ==
    /\ phase = "built"
    /\ Len(approaches) = 3
    /\ approaches[1].neo # None
    /\ approaches[2].neo = None
    /\ ~Linkable(2)
    /\ approaches[3].neo # None

\* the NEO at position n is followed by another NEO of its designation
HasLaterDuplicate(n) ==
    \E o \in (n + 1)..Len(neos) : neos[o].designation = neos[n].designation

\* the latest position whose NEO has the designation of the approach at j
LatestWithDesignation(j) ==
    CHOOSE n \in 1..Len(neos) : HasDesignation(n, j) /\ ~HasLaterDuplicate(n)

\* C11: when a designation occurs more than once among the NEOs, construction
\* links every approach of that designation (neo reference and membership of
\* approaches, once) to the NEO at the latest position holding it, and every
\* earlier NEO of that designation ends with an empty approaches sequence.
C11_LastWriteWins ==
    phase = "built" =>
        /\ \A n \in 1..Len(neos) :
              HasLaterDuplicate(n) => neos[n].approaches = <<>>
        /\ \A j \in 1..Len(approaches) :
              (\E n \in 1..Len(neos) : HasDesignation(n, j) /\ HasLaterDuplicate(n)) =>
                  /\ approaches[j].neo = Some(LatestWithDesignation(j))
                  /\ Count(neos[LatestWithDesignation(j)].approaches, j) = 1

\* two NEOs of one designation and two approaches of it, both linked to the
\* second NEO
C11_Witness ==
    /\ phase = "built"
    /\ Len(neos) = 2
    /\ neos[1].designation = neos[2].designation
    /\ neos[1] # neos[2]
    /\ neos[1].approaches = <<>>
    /\ Len(neos[2].approaches) = 2
    /\ \A j \in Range(neos[2].approaches) : approaches[j].neo = Some(2)

----------------------------------------------------------------------------
(* Query over a database that holds an orphan approach *)

Orphans == {j \in 1..Len(approaches) : approaches[j].neo = None}

\* the positions before the first orphan
BeforeFirstOrphan == {i \in 1..Len(approaches) : \A h \in 1..i : h \notin Orphans}

HasNeoDerived(F) == \E k \in 1..Len(F) : F[k].kind \in NeoDerived

\* C12: a query whose filters include a Diameter or Hazardous predicate, over
\* a database holding an orphan, yields the matching approaches that precede
\* the first orphan and ends with an error at that orphan, never normally,
\* whatever the other predicates of the collection evaluate to on the orphan.
C12_ErrorAtFirstOrphan ==
    \A s \in Queries :
        LET g == streams[s]
            F == g.filters
        IN  (HasNeoDerived(F) /\ Orphans # {}) =>
                /\ g.status # "done"
                /\ IsAscending(g.out)
                /\ Range(g.out) \subseteq
                      {i \in BeforeFirstOrphan : AllTrue(F, i)}
                /\ g.status = "error" =>
                      /\ g.pos \in Orphans
                      /\ g.pos - 1 \in BeforeFirstOrphan \cup {0}
                      /\ Range(g.out) = {i \in BeforeFirstOrphan : AllTrue(F, i)}

\* a stream that yielded a match and then ended with an error at an orphan on
\* which the first predicate of its collection, not NEO-derived, is false
C12_Witness ==
    \E s \in Queries :
        LET g == streams[s]
        IN  /\ g.status = "error"
            /\ Len(g.filters) = 2
            /\ g.filters[1].kind \notin NeoDerived
            /\ g.filters[2].kind \in NeoDerived
            /\ Len(g.out) >= 1
            /\ g.pos \in Orphans
            /\ ~call(g.filters[1], approaches[g.pos], neos)

----------------------------------------------------------------------------
(* Interleaved query streams *)

\* the generator g consumed to its end by a single consumer
RECURSIVE consume(_)
consume(g) ==
    IF g.status # "suspended" THEN g
    ELSE consume(generator_next(g, approaches, neos))

\* query(F) consumed alone from a new generator
Alone(F) ==
    consume([op |-> "query", filters |-> F, pos |-> 1, out |-> <<>>,
             status |-> "suspended"])

C9_SameAsAlone ==
    \A s \in Queries :
        LET g == streams[s]
            a == Alone(g.filters)
        IN  /\ IsPrefix(g.out, a.out)
            /\ g.status # "suspended" => (g.out = a.out /\ g.status = a.status)
            /\ g.status = "suspended" /\ g.out = <<>> => g.pos = 1

C9_ReadOnlyStep ==
    (phase = "built" /\ streams' # streams) =>
        (neos' = neos /\ approaches' = approaches)

\* C9: query streams over one database consumed in any interleaving each scan
\* from the first approach and yield what they would yield consumed alone
\* (same items, same order, same end), and no step of a stream changes a NEO,
\* an approach or either collection.
C9_StreamsIndependent == [](C9_SameAsAlone) /\ [][C9_ReadOnlyStep]_vars

\* two streams with different filters, one finished after yielding, the other
\* part-way through its scan
C9_Witness ==
    /\ {1, 2} \subseteq Queries
    /\ streams[1].filters # streams[2].filters
    /\ streams[1].status = "done"
    /\ Len(streams[1].out) >= 1
    /\ streams[2].status = "suspended"
    /\ Len(streams[2].out) = 1
    /\ streams[2].pos <= Len(approaches)

----------------------------------------------------------------------------
(* database.py: get_neo_by_designation and get_neo_by_name *)

RECURSIVE designation_scan_exact(_, _, _)
designation_scan_exact(ns, i, designation) ==
    IF i > Len(ns) THEN None
    ELSE IF ns[i].designation = designation THEN Some(i)
    ELSE designation_scan_exact(ns, i + 1, designation)
\* the loop of get_neo_by_designation from position i on
RECURSIVE designation_scan(_, _, _)
designation_scan(ns, i, designation) ==
    IF i > Len(ns) THEN None
    ELSE IF ns[i].designation = upper(designation) THEN Some(i)
    ELSE designation_scan(ns, i + 1, designation)

\* get_neo_by_designation(designation): the NEO found, or None
get_neo_by_designation(ns, designation) == designation_scan(ns, 1, designation)

\* the loop of get_neo_by_name from position i on
RECURSIVE name_scan(_, _, _)
name_scan(ns, i, name) ==
    IF i > Len(ns) THEN None
    ELSE IF ns[i].name = Some(capitalize(name)) THEN Some(i)
    ELSE name_scan(ns, i + 1, name)

\* get_neo_by_name(name): the NEO found, or None
get_neo_by_name(ns, name) == name_scan(ns, 1, name)

\* the strings over Chars of length 0..MaxStrLen
Strings == SeqsUpTo(Chars, MaxStrLen)

\* NEOs with designations and names in several letter cases
LookupNeoInputs ==
    { NearEarthObject(<<"A", "1">>, None, None, FALSE),
      NearEarthObject(<<"a", "1">>, Some(<<"A", "a">>), None, FALSE),
      NearEarthObject(<<"A">>, Some(<<"A", "A">>), None, TRUE),
      NearEarthObject(<<"1">>, Some(<<"A", "a">>), None, FALSE),
      NearEarthObject(<<"A", "1">>, Some(<<"a", "a">>), None, TRUE),
      NearEarthObject(<<"1", "A">>, Some(<<"1", "A">>), None, FALSE) }

\* a database constructed over NEOs alone
InitLookup ==
    /\ \E ns \in SeqsUpTo(LookupNeoInputs, MaxNeos) :
          /\ neos = NEODatabase(ns, <<>>).neos
          /\ approaches = NEODatabase(ns, <<>>).approaches
    /\ phase = "built"
    /\ streams = NoStreams({})
    /\ lookup = Idle
    /\ created = Idle
    /\ lim = Idle
    /\ written = Idle

GetNeoByDesignation ==
    /\ phase = "built"
    /\ \E designation \in Strings :
          lookup' = [op |-> "get_neo_by_designation", arg |-> designation,
                     result |-> get_neo_by_designation(neos, designation)]
    /\ UNCHANGED <<neos, approaches, phase, streams, created, lim, written>>

GetNeoByName ==
    /\ phase = "built"
    /\ \E name \in Strings :
          lookup' = [op |-> "get_neo_by_name", arg |-> name,
                     result |-> get_neo_by_name(neos, name)]
    /\ UNCHANGED <<neos, approaches, phase, streams, created, lim, written>>

NextLookup == GetNeoByDesignation \/ GetNeoByName

SpecLookup == InitLookup /\ [][NextLookup]_vars

UniqueDesignations ==
    \A n, o \in 1..Len(neos) : neos[n].designation = neos[o].designation => n = o

\* C6: over NEOs with unique designations, get_neo_by_designation(d) returns
\* the NEO whose designation is d in upper case, and None when there is none.
C6_DesignationLookup ==
    (lookup.op = "get_neo_by_designation" /\ UniqueDesignations) =>
        /\ \A n \in 1..Len(neos) :
              neos[n].designation = upper(lookup.arg) => lookup.result = Some(n)
        /\ (\A n \in 1..Len(neos) : neos[n].designation # upper(lookup.arg))
              => lookup.result = None

\* a lower-case argument finds the second NEO of two; the first NEO differs
\* from it only by letter case
C6_Witness ==
    /\ lookup.op = "get_neo_by_designation"
    /\ UniqueDesignations
    /\ Len(neos) = 2
    /\ lookup.arg # upper(lookup.arg)
    /\ lookup.result = Some(2)
    /\ upper(neos[1].designation) = neos[2].designation

\* the first position whose NEO has the name s, or None
FirstNamed(s) ==
    IF \E n \in 1..Len(neos) : neos[n].name = Some(s)
    THEN Some(CHOOSE n \in 1..Len(neos) :
                /\ neos[n].name = Some(s)
                /\ \A o \in 1..(n - 1) : neos[o].name # Some(s))
    ELSE None

\* C7 as stated: get_neo_by_name(name) returns the first NEO whose name is
\* name with its first letter capitalized and the rest unchanged, or None when
\* there is none.
C7_AsStated ==
    lookup.op = "get_neo_by_name" =>
        lookup.result = FirstNamed(capitalize_rest_unchanged(lookup.arg))

----------------------------------------------------------------------------
(* filters.py: create_filters *)

\* truth value of an optional float: None and 0 are false
truthy(x) == x # None /\ x[1] # 0

\* truth value of an optional datetime.date: only None is false
truthy_date(x) == x # None

\* specified_filters.append(f) under the condition c
append_if(c, f) == IF c THEN <<f>> ELSE <<>>

\* create_filters(**c): c holds None or Some(value) for each criterion
create_filters(c) ==
       append_if(truthy_date(c.date), Filter("Date", "eq", c.date[1]))
    \o append_if(truthy_date(c.start_date), Filter("Date", "ge", c.start_date[1]))
    \o append_if(truthy_date(c.end_date), Filter("Date", "le", c.end_date[1]))
    \o append_if(truthy(c.velocity_min), Filter("Velocity", "ge", c.velocity_min[1]))
    \o append_if(truthy(c.velocity_max), Filter("Velocity", "le", c.velocity_max[1]))
    \o append_if(truthy(c.distance_min), Filter("Distance", "ge", c.distance_min[1]))
    \o append_if(truthy(c.distance_max), Filter("Distance", "le", c.distance_max[1]))
    \o append_if(c.hazardous # None, Filter("Hazardous", "eq", Bool(c.hazardous[1])))
    \o append_if(truthy(c.diameter_min), Filter("Diameter", "ge", c.diameter_min[1]))
    \o append_if(truthy(c.diameter_max), Filter("Diameter", "le", c.diameter_max[1]))

OptionalDates == {None, Some(1)}
OptionalFloats == {None, Some(0), Some(1)}
OptionalBools == {None, Some(FALSE), Some(TRUE)}

Criteria ==
    [date : OptionalDates, start_date : OptionalDates, end_date : OptionalDates,
     distance_min : OptionalFloats, distance_max : OptionalFloats,
     velocity_min : OptionalFloats, velocity_max : OptionalFloats,
     diameter_min : OptionalFloats, diameter_max : OptionalFloats,
     hazardous : OptionalBools]

InitFilters ==
    /\ neos = <<>>
    /\ approaches = <<>>
    /\ phase = "loaded"
    /\ streams = NoStreams({})
    /\ lookup = Idle
    /\ created = Idle
    /\ lim = Idle
    /\ written = Idle

\* filters = create_filters(**c), called once
CreateFilters ==
    /\ created = Idle
    /\ \E c \in Criteria :
          created' = [op |-> "create_filters", args |-> c,
                      filters |-> create_filters(c)]
    /\ UNCHANGED <<neos, approaches, phase, streams, lookup, lim, written>>

NextFilters == CreateFilters

SpecFilters == InitFilters /\ [][NextFilters]_vars

\* the number of filters of fs with the given kind, comparator and value
Produced(fs, kind, op, value) ==
    Cardinality({k \in 1..Len(fs) :
        fs[k].kind = kind /\ fs[k].op = op /\ fs[k].value = value})

\* the number of filters of fs with the given kind and comparator
ProducedAny(fs, kind, op) ==
    Cardinality({k \in 1..Len(fs) : fs[k].kind = kind /\ fs[k].op = op})

\* one predicate of this kind and comparator with the criterion's value when
\* the criterion is given, none when it is None
OnePerCriterion(fs, x, kind, op) ==
    IF x = None THEN ProducedAny(fs, kind, op) = 0
    ELSE /\ ProducedAny(fs, kind, op) = 1
         /\ Produced(fs, kind, op, x[1]) = 1

\* C5 as stated: create_filters produces exactly one predicate for each
\* criterion that is not None (zero-valued ones included) and none for each
\* that is None, with equal for date and hazardous, greater-or-equal for
\* start_date and the minima, less-or-equal for end_date and the maxima, and
\* the criterion's value as reference value.
C5_AsStated ==
    created.op = "create_filters" =>
        LET c  == created.args
            fs == created.filters
        IN  /\ OnePerCriterion(fs, c.date, "Date", "eq")
            /\ OnePerCriterion(fs, c.start_date, "Date", "ge")
            /\ OnePerCriterion(fs, c.end_date, "Date", "le")
            /\ OnePerCriterion(fs, c.distance_min, "Distance", "ge")
            /\ OnePerCriterion(fs, c.distance_max, "Distance", "le")
            /\ OnePerCriterion(fs, c.velocity_min, "Velocity", "ge")
            /\ OnePerCriterion(fs, c.velocity_max, "Velocity", "le")
            /\ OnePerCriterion(fs, c.diameter_min, "Diameter", "ge")
            /\ OnePerCriterion(fs, c.diameter_max, "Diameter", "le")
            /\ ProducedAny(fs, "Hazardous", "eq") = (IF c.hazardous = None THEN 0 ELSE 1)
            /\ c.hazardous # None =>
                  Produced(fs, "Hazardous", "eq", Bool(c.hazardous[1])) = 1
            /\ ProducedAny(fs, "Hazardous", "ge") + ProducedAny(fs, "Hazardous", "le") = 0

----------------------------------------------------------------------------
(* filters.py: limit *)

\* list(itertools.islice(iterator, 0, n)) over an iterator about to produce
\* items: the first n items, or all of them when there are fewer
islice_list(items, n) == SubSeq(items, 1, Min(n, Len(items)))

limit_none_only(items, n) ==
    IF n = None
    THEN [op |-> "limit", items |-> items, n |-> n, result |-> "iterator",
          buf |-> <<>>, pulled |-> 0, requested |-> 0, got |-> <<>>,
          status |-> "open"]
    ELSE [op |-> "limit", items |-> items, n |-> n, result |-> "list",
          buf |-> islice_list(items, n[1]),
          pulled |-> Len(islice_list(items, n[1])),
          requested |-> 0, got |-> <<>>, status |-> "open"]
\* limit(iterator, n) over an iterator about to produce items; n is None or
\* Some(int). The result is the iterator itself, or a list built at once from
\* the items that islice pulled (pulled counts the items taken from upstream).
limit(items, n) ==
    IF n = Some(0) \/ n = None
    THEN [op |-> "limit", items |-> items, n |-> n, result |-> "iterator",
          buf |-> <<>>, pulled |-> 0, requested |-> 0, got |-> <<>>,
          status |-> "open"]
    ELSE [op |-> "limit", items |-> items, n |-> n, result |-> "list",
          buf |-> islice_list(items, n[1]),
          pulled |-> Len(islice_list(items, n[1])),
          requested |-> 0, got |-> <<>>, status |-> "open"]

\* the consumer asks the result of limit for its next item
consumer_next(l) ==
    IF l.result = "iterator"
    THEN IF l.pulled < Len(l.items)
         THEN [l EXCEPT !.requested = @ + 1, !.pulled = @ + 1,
                        !.got = Append(@, l.items[l.pulled + 1])]
         ELSE [l EXCEPT !.requested = @ + 1, !.status = "exhausted"]
    ELSE IF Len(l.got) < Len(l.buf)
         THEN [l EXCEPT !.requested = @ + 1,
                        !.got = Append(@, l.buf[Len(l.got) + 1])]
         ELSE [l EXCEPT !.requested = @ + 1, !.status = "exhausted"]

Items == {"x", "y"}

InitLimit ==
    /\ neos = <<>>
    /\ approaches = <<>>
    /\ phase = "loaded"
    /\ streams = NoStreams({})
    /\ lookup = Idle
    /\ created = Idle
    /\ lim = Idle
    /\ written = Idle

\* results = limit(iterator, n), called once
Limit ==
    /\ lim = Idle
    /\ \E items \in SeqsUpTo(Items, MaxLen) :
       \E n \in {None} \cup {Some(k) : k \in 0..(MaxLen + 1)} :
          lim' = limit(items, n)
    /\ UNCHANGED <<neos, approaches, phase, streams, lookup, created, written>>

\* next(results) by the consumer
ConsumerNext ==
    /\ lim # Idle
    /\ lim.status = "open"
    /\ lim' = consumer_next(lim)
    /\ UNCHANGED <<neos, approaches, phase, streams, lookup, created, written>>

NextLimit == Limit \/ ConsumerNext

SpecLimit == InitLimit /\ [][NextLimit]_vars

Unlimited(n) == n = None \/ n = Some(0)

\* C3: limit(seq, 0) and limit(seq, None) yield every item of seq in order;
\* limit(seq, n) with n > 0 yields exactly the first min(n, len(seq)) items
\* of seq in order.
C3_LimitYields ==
    lim.op = "limit" =>
        /\ IsPrefix(lim.got, lim.items)
        /\ lim.status = "exhausted" =>
              IF Unlimited(lim.n) THEN lim.got = lim.items
              ELSE /\ Len(lim.got) = Min(lim.n[1], Len(lim.items))
                   /\ lim.got = SubSeq(lim.items, 1, Len(lim.got))

\* limit(seq, 2) over three items consumed to its end: the first two came out
C3_Witness ==
    /\ lim.op = "limit"
    /\ lim.n = Some(2)
    /\ lim.status = "exhausted"
    /\ Len(lim.items) = 3
    /\ lim.got = <<lim.items[1], lim.items[2]>>

\* C4 as stated: with n > 0, limit has never pulled more items from upstream
\* than the consumer has requested from the result.
C4_AsStated ==
    (lim.op = "limit" /\ ~Unlimited(lim.n)) => lim.pulled <= lim.requested

----------------------------------------------------------------------------
(* models.py serialize, write.py write_to_csv and write_to_json *)

\* helpers.datetime_to_str: the datetime as its display text, here the pair
\* of its date and its time of day
datetime_to_str(dt) == <<dt.date, dt.hm>>

\* NearEarthObject.serialize
serialize_neo(neo) ==
    [designation |-> neo.designation,
     name |-> neo.name,
     diameter_km |-> neo.diameter,
     potentially_hazardous |-> neo.hazardous]

\* CloseApproach.serialize
serialize_approach(approach) ==
    [velocity_km_s |-> approach.velocity,
     datetime_utc |-> datetime_to_str(approach.time),
     distance_au |-> approach.distance]

\* {**a, **b}: the keys of both, b's value where both have the key
dict_merge(a, b) == b @@ a

\* d.get(key, default)
dict_get(d, key, default) == IF key \in DOMAIN d THEN d[key] ELSE default

\* the empty str
EmptyStr == Some(<<>>)

\* str(bool)
str_bool(b) == IF b THEN "True" ELSE "False"

\* the dict write_to_csv hands to writer.writerow for one linked result
csv_content(approach, ns) ==
    LET content == dict_merge(serialize_approach(approach),
                              serialize_neo(ns[approach.neo[1]]))
        named   == [content EXCEPT !.name = dict_get(content, "name", EmptyStr)]
    IN  [named EXCEPT !.potentially_hazardous =
            str_bool(dict_get(named, "potentially_hazardous", FALSE))]

\* writer.writerow(content): the row as it stands in the file. csv.DictWriter
\* writes a None cell as the empty string; name is the only cell that can be
\* None, every other cell keeps its value
csv_writerow(content) ==
    [content EXCEPT !.name = IF @ = None THEN EmptyStr ELSE @]

\* the object write_to_json appends for one linked result
json_content(approach, ns) ==
    LET content == dict_merge(serialize_approach(approach),
                              serialize_neo(ns[approach.neo[1]]))
        named   == [content EXCEPT !.name = dict_get(content, "name", EmptyStr)]
        flagged == [named EXCEPT !.potentially_hazardous =
                      dict_get(named, "potentially_hazardous", FALSE)]
    IN  [datetime_utc |-> dict_get(flagged, "datetime_utc", None),
         distance_au |-> dict_get(flagged, "distance_au", None),
         velocity_km_s |-> dict_get(flagged, "velocity_km_s", None),
         neo |-> [designation |-> dict_get(flagged, "designation", None),
                  name |-> dict_get(flagged, "name", None),
                  diameter_km |-> dict_get(flagged, "diameter_km", None),
                  potentially_hazardous |->
                      dict_get(flagged, "potentially_hazardous", None)]]

\* the loop of write_to_csv over results (positions in as) from the k-th on:
\* the rows written to the file, and whether result.neo.serialize() raised on
\* an orphan
RECURSIVE csv_loop(_, _, _, _, _)
csv_loop(results, as, ns, k, rows) ==
    IF k > Len(results) THEN [rows |-> rows, raised |-> FALSE]
    ELSE IF as[results[k]].neo = None THEN [rows |-> rows, raised |-> TRUE]
    ELSE csv_loop(results, as, ns, k + 1,
                  Append(rows, csv_writerow(csv_content(as[results[k]], ns))))

\* the loop of write_to_json; the file is dumped only after the whole loop
RECURSIVE json_loop(_, _, _, _, _)
json_loop(results, as, ns, k, rows) ==
    IF k > Len(results) THEN [rows |-> rows, raised |-> FALSE]
    ELSE IF as[results[k]].neo = None THEN [rows |-> <<>>, raised |-> TRUE]
    ELSE json_loop(results, as, ns, k + 1,
                   Append(rows, json_content(as[results[k]], ns)))

\* the first k approaches of the database, as limit(query(), k) produces them
FirstResults(k) == [i \in 1..k |-> i]

InitWrite == InitDB({}, NeoSeqs, ApproachSeqs)

\* neo.serialize()
Serialize ==
    /\ phase = "built"
    /\ \E n \in 1..Len(neos) :
          written' = [op |-> "serialize", neo |-> n,
                      view |-> serialize_neo(neos[n])]
    /\ UNCHANGED <<neos, approaches, phase, streams, lookup, created, lim>>

\* write_to_csv(results, filename)
WriteToCsv ==
    /\ phase = "built"
    /\ \E k \in 1..Len(approaches) :
          LET r == csv_loop(FirstResults(k), approaches, neos, 1, <<>>)
          IN  written' = [op |-> "write_to_csv", results |-> FirstResults(k),
                          rows |-> r.rows, raised |-> r.raised]
    /\ UNCHANGED <<neos, approaches, phase, streams, lookup, created, lim>>

\* write_to_json(results, filename)
WriteToJson ==
    /\ phase = "built"
    /\ \E k \in 1..Len(approaches) :
          LET r == json_loop(FirstResults(k), approaches, neos, 1, <<>>)
          IN  written' = [op |-> "write_to_json", results |-> FirstResults(k),
                          rows |-> r.rows, raised |-> r.raised]
    /\ UNCHANGED <<neos, approaches, phase, streams, lookup, created, lim>>

NextWrite == Construct \/ Serialize \/ WriteToCsv \/ WriteToJson

SpecWrite == InitWrite /\ [][NextWrite]_vars

\* the name field the serialization view is to have for a NEO
ViewName(neo) == IF neo.name = None THEN EmptyStr ELSE neo.name

\* C8 as stated: the NEO view made by serialize(), the dict write_to_csv
\* merges for each row it writes, and the NEO fields of each object made by
\* write_to_json, have name equal to the empty string when the NEO's name is
\* None and equal to the name otherwise.
C8_AsStated ==
    /\ written.op = "serialize" =>
          written.view.name = ViewName(neos[written.neo])
    /\ written.op = "write_to_csv" =>
          \A k \in 1..Len(written.rows) :
              csv_content(approaches[written.results[k]], neos).name =
                  ViewName(neos[approaches[written.results[k]].neo[1]])
    /\ written.op = "write_to_json" =>
          \A k \in 1..Len(written.rows) :
              written.rows[k].neo.name =
                  ViewName(neos[approaches[written.results[k]].neo[1]])

====
